---- MODULE Spec2Model ----
(***************************************************************************)
(* Batch tagging of a tabular export (src/main.py): ledger-based dedupe,   *)
(* batching with bounded retry around the classifier call, validation of   *)
(* the returned labels against the allow-list, per-record ledger append    *)
(* and the final export decision.                                          *)
(*                                                                         *)
(* Strings are sequences of one-character strings so that strip(),         *)
(* lower(), endswith() and sorted() are computed, not assumed.             *)
(***************************************************************************)
EXTENDS Integers, Sequences, FiniteSets, TLC

(***************************************************************************)
(* Bounds of the model.                                                    *)
(***************************************************************************)
\* number of rows of the input dataset
MaxRows == 3
\* number of sequential runs over the same input and ledger
MaxRuns == 2
\* batch size; 5 in src/main.py:39, scaled down so that an input of
\* MaxRows rows spans several batches
BATCH_SIZE == 2

(***************************************************************************)
(* Program constants.                                                      *)
(***************************************************************************)
MAX_RETRIES == 3

\* the allow-list, abbreviated to two of its members:
\* "au" stands for "automotive", "lu" for "lubricants"
ALLOWED_TAGS == { <<"a", "u">>, <<"l", "u">> }

\* the namespace prefix "Brenntag/", abbreviated
TagPrefix == <<"B", "/">>

\* pandas' missing value
NA == <<"<NA>">>

pd_isna(v) == v = NA

(***************************************************************************)
(* String helpers: str.strip, str.lower, str.endswith, sorted.             *)
(***************************************************************************)
IsSpace(c) == c = " "

RECURSIVE LStrip(_)
LStrip(s) == IF s # <<>> /\ IsSpace(Head(s)) THEN LStrip(Tail(s)) ELSE s

RECURSIVE RStrip(_)
RStrip(s) ==
    IF s # <<>> /\ IsSpace(s[Len(s)]) THEN RStrip(SubSeq(s, 1, Len(s) - 1)) ELSE s

Strip(s) == RStrip(LStrip(s))

LowerChar(c) ==
    CASE c = "A" -> "a"
      [] c = "L" -> "l"
      [] c = "U" -> "u"
      [] c = "B" -> "b"
      [] OTHER -> c

Lower(s) == [k \in 1..Len(s) |-> LowerChar(s[k])]

\* code point order of the characters that occur in labels
Ord(c) ==
    CASE c = " " -> 0
      [] c = "," -> 1
      [] c = "/" -> 2
      [] c = "A" -> 3
      [] c = "B" -> 4
      [] c = "L" -> 5
      [] c = "U" -> 6
      [] c = "a" -> 7
      [] c = "b" -> 8
      [] c = "l" -> 9
      [] c = "u" -> 10
      [] OTHER -> 11

RECURSIVE StrLess(_, _)
StrLess(s, t) ==
    IF t = <<>> THEN FALSE
    ELSE IF s = <<>> THEN TRUE
    ELSE IF Head(s) = Head(t) THEN StrLess(Tail(s), Tail(t))
    ELSE Ord(Head(s)) < Ord(Head(t))

RECURSIVE Sorted(_)
Sorted(S) ==
    IF S = {} THEN <<>>
    ELSE LET m == CHOOSE x \in S : \A y \in S \ {x} : StrLess(x, y)
         IN <<m>> \o Sorted(S \ {m})

RECURSIVE Join(_, _)
Join(sep, parts) ==
    IF parts = <<>> THEN <<>>
    ELSE IF Len(parts) = 1 THEN parts[1]
    ELSE parts[1] \o sep \o Join(sep, Tail(parts))

\* str.split on a one-character separator
RECURSIVE Split(_, _)
Split(s, sep) ==
    IF \A n \in 1..Len(s) : s[n] # sep THEN <<s>>
    ELSE LET p == CHOOSE n \in 1..Len(s) : s[n] = sep /\ \A m \in 1..(n - 1) : s[m] # sep
         IN  <<SubSeq(s, 1, p - 1)>> \o Split(SubSeq(s, p + 1, Len(s)), sep)

(***************************************************************************)
(* _normalize_url                                                          *)
(***************************************************************************)
_normalize_url(url) ==
    IF pd_isna(url) \/ url = <<>> THEN <<>>
    ELSE LET s == Strip(url)
         IN IF s # <<>> /\ s[Len(s)] = "/" THEN SubSeq(s, 1, Len(s) - 1) ELSE s

(***************************************************************************)
(* Values exchanged with the collaborators.                                *)
(***************************************************************************)
\* Python's None where a string is expected
NoneStr == <<"<None>">>

\* an entry of a raw label list: a string, or a non-string JSON value
StrEntry(s) == [isstr |-> TRUE, s |-> s]
NonStrEntry == [isstr |-> FALSE, s |-> <<>>]

\* the value stored under an id of the response: a list, or JSON null
ListValue(items) == [kind |-> "list", items |-> items]
NullValue == [kind |-> "null", items |-> <<>>]

\* ["Automotive", "banana", " LUBRICANTS ", "automotive", 42]
SampleLabels ==
    << StrEntry(<<"A", "u">>), StrEntry(<<"b", "a">>), StrEntry(<<" ", "L", "U", " ">>),
       StrEntry(<<"a", "u">>), NonStrEntry >>

\* ["banana"]
InvalidLabels == << StrEntry(<<"b", "a">>) >>

RawValues == { ListValue(SampleLabels), ListValue(InvalidLabels), NullValue }

\* a key of the response that is no id of the batch: the least record index
\* outside the batch
ForeignId(batch_ids) ==
    CHOOSE x \in 0..Cardinality(batch_ids) :
        x \notin batch_ids /\ \A y \in 0..(x - 1) : y \in batch_ids

EmptyMap == [x \in {} |-> NullValue]

\* what _process_batch returns: None, a parsed JSON object, or another
\* parsed JSON value (here a list of `size` numbers)
NoneResult == [kind |-> "none", map |-> EmptyMap, size |-> 0]
DictResult(m) == [kind |-> "dict", map |-> m, size |-> 0]
ListResult(n) == [kind |-> "list", map |-> EmptyMap, size |-> n]

\* Python truthiness of the value returned by _process_batch
Truthy(r) ==
    CASE r.kind = "none" -> FALSE
      [] r.kind = "dict" -> DOMAIN r.map # {}
      [] OTHER -> r.size > 0

(***************************************************************************)
(* _process_batch: any exception, an empty body and the body "null" give   *)
(* None; every other body is returned as parsed.  The backend decides the  *)
(* body, so the result is any of: None, a list, an object with a key that  *)
(* is no id of the batch, and the objects that give none of the ids, all   *)
(* of them, only the first or all but the first the same value.            *)
(***************************************************************************)
_process_batch(batch_data) ==
    LET ids == { batch_data[n][1] : n \in 1..Len(batch_data) }
        first == batch_data[1][1]
    IN  {NoneResult, ListResult(0), ListResult(1),
         DictResult((ForeignId(ids) :> ListValue(SampleLabels)))}
        \cup { DictResult([x \in K |-> v]) :
                 K \in {{}, ids, {first}, ids \ {first}}, v \in RawValues }

\* mutant: line 163, sorted(set(...)), is missing
_validate_and_format_tags_listed(tags_list) ==
    LET strs == SelectSeq(tags_list, LAMBDA e : e.isstr)
        lowered == [n \in 1..Len(strs) |-> Strip(Lower(strs[n].s))]
        kept == SelectSeq(lowered, LAMBDA t : t \in ALLOWED_TAGS)
    IN  Join(<<",">>, [n \in 1..Len(kept) |-> TagPrefix \o kept[n]])

\* mutant: the allow-list filter of line 162 is missing
_validate_and_format_tags_unfiltered(tags_list) ==
    LET strs == SelectSeq(tags_list, LAMBDA e : e.isstr)
        lowered == { Strip(Lower(strs[n].s)) : n \in 1..Len(strs) }
        sorted == Sorted(lowered)
    IN  Join(<<",">>, [n \in 1..Len(sorted) |-> TagPrefix \o sorted[n]])

(***************************************************************************)
(* _validate_and_format_tags                                               *)
(***************************************************************************)
_validate_and_format_tags(tags_list) ==
    LET strs == SelectSeq(tags_list, LAMBDA e : e.isstr)
        lowered == [n \in 1..Len(strs) |-> Strip(Lower(strs[n].s))]
        kept == { lowered[n] : n \in { m \in 1..Len(lowered) : lowered[m] \in ALLOWED_TAGS } }
        sorted == Sorted(kept)
    IN  Join(<<",">>, [n \in 1..Len(sorted) |-> TagPrefix \o sorted[n]])

(***************************************************************************)
(* Content selection                                                       *)
(***************************************************************************)
\* the keyword of line 108
YOUTUBE == <<"y", "o", "u", "t", "u", "b", "e">>
MAX_TRANSCRIPT_CHARS == 2

Contains(s, sub) ==
    \E n \in 0..(Len(s) - Len(sub)) : SubSeq(s, n + 1, n + Len(sub)) = sub

StartsWith(s, pre) == Len(s) >= Len(pre) /\ SubSeq(s, 1, Len(pre)) = pre

\* the part of s before the first character of the set stop
RECURSIVE Before(_, _)
Before(s, stop) ==
    IF s = <<>> \/ Head(s) \in stop THEN <<>> ELSE <<Head(s)>> \o Before(Tail(s), stop)

\* str.strip("/")
RECURSIVE StripSlash(_)
StripSlash(s) ==
    IF s # <<>> /\ Head(s) = "/" THEN StripSlash(Tail(s))
    ELSE IF s # <<>> /\ s[Len(s)] = "/" THEN StripSlash(SubSeq(s, 1, Len(s) - 1))
    ELSE s

\* urllib.parse.urlparse of a string that starts with http:// or https://,
\* or is empty: the network location ends before the first "/", "?" or "#",
\* the path before the first "?" or "#", the query before the first "#"
urlparse(s) ==
    LET https == <<"h", "t", "t", "p", "s", ":", "/", "/">>
        http == <<"h", "t", "t", "p", ":", "/", "/">>
        rest == IF StartsWith(s, https) THEN SubSeq(s, Len(https) + 1, Len(s))
                ELSE IF StartsWith(s, http) THEN SubSeq(s, Len(http) + 1, Len(s))
                ELSE s
        netloc == IF rest = s THEN <<>> ELSE Before(rest, {"/", "?", "#"})
        after_netloc == SubSeq(rest, Len(netloc) + 1, Len(rest))
        path == Before(after_netloc, {"?", "#"})
        after_path == SubSeq(after_netloc, Len(path) + 1, Len(after_netloc))
        query == IF after_path # <<>> /\ Head(after_path) = "?"
                 THEN Before(Tail(after_path), {"#"}) ELSE <<>>
    IN  [netloc |-> netloc, path |-> path, query |-> query]

\* parse_qs(query).get("v", [None])[0]: the value of the first field v=...
\* whose value is not blank
parse_qs_v(query) ==
    LET fields == IF query = <<>> THEN <<>> ELSE Split(query, "&")
        vs == SelectSeq(fields, LAMBDA f : StartsWith(f, <<"v", "=">>) /\ Len(f) > 2)
    IN  IF vs = <<>> THEN NoneStr ELSE SubSeq(vs[1], 3, Len(vs[1]))

_get_video_id(url) ==
    IF pd_isna(url) \/ url = <<>> THEN NoneStr
    ELSE LET s0 == Strip(url)
             s == IF s0 # <<>> /\ ~StartsWith(s0, <<"h", "t", "t", "p", ":", "/", "/">>)
                               /\ ~StartsWith(s0, <<"h", "t", "t", "p", "s", ":", "/", "/">>)
                  THEN <<"h", "t", "t", "p", "s", ":", "/", "/">> \o s0 ELSE s0
             parsed == urlparse(s)
         IN  IF Contains(parsed.netloc, <<"y", "o", "u", "t", "u", ".", "b", "e">>)
             THEN IF StripSlash(parsed.path) = <<>> THEN NoneStr ELSE StripSlash(parsed.path)
             ELSE IF Contains(parsed.netloc, <<"y", "o", "u", "t", "u", "b", "e", ".", "c", "o", "m">>)
             THEN parse_qs_v(parsed.query)
             ELSE NoneStr

content_empty(row) == pd_isna(row.content) \/ Strip(row.content) = <<>>

is_youtube(row) == ~pd_isna(row.url) /\ Contains(Lower(row.url), YOUTUBE)

\* what YouTubeTranscriptApi().fetch does: it raises, or it returns the
\* snippets of the transcript (none, or "xy" and "z")
ApiOutcomes ==
    { [ok |-> FALSE, texts |-> <<>>],
      [ok |-> TRUE, texts |-> <<>>],
      [ok |-> TRUE, texts |-> << <<"x", "y">>, <<"z">> >>] }

\* _fetch_youtube_transcript: None when the id cannot be extracted, when the
\* retrieval raises or when it yields no text, else the joined text
_fetch_youtube_transcript(url, fetched) ==
    IF _get_video_id(url) = NoneStr THEN NoneStr
    ELSE IF ~fetched.ok THEN NoneStr
    ELSE LET text == Strip(Join(<<" ">>, fetched.texts))
         IN  IF text = <<>> THEN NoneStr ELSE text

\* the transcripts the selector can be given for a row
Transcripts(row) ==
    IF is_youtube(row) /\ content_empty(row)
    THEN { _fetch_youtube_transcript(row.url, f) : f \in ApiOutcomes }
    ELSE {NoneStr}

get_content_for_tagging(row, transcript) ==
    IF is_youtube(row) /\ content_empty(row)
    THEN LET title == IF pd_isna(row.title) THEN <<>> ELSE Strip(row.title)
             transcript_part ==
                 IF transcript # NoneStr /\ transcript # <<>>
                 THEN SubSeq(transcript, 1,
                             IF Len(transcript) < MAX_TRANSCRIPT_CHARS
                             THEN Len(transcript) ELSE MAX_TRANSCRIPT_CHARS)
                 ELSE <<>>
             parts == SelectSeq(<<title, transcript_part>>, LAMBDA p : p # <<>>)
         IN  Join(<<"\n">>, parts)
    ELSE IF pd_isna(row.content) THEN <<>> ELSE Strip(row.content)

(***************************************************************************)
(* State                                                                   *)
(***************************************************************************)
VARIABLES
    xlsx,             \* the input dataset on disk (FILE_PATH_EXCEL)
    log_file,         \* the ledger on disk (LOG_FILE)
    out_file,         \* the output artifact of the current run
    run,              \* number of the current run
    pc,               \* position of main()
    df,               \* column tags_ai of the dataframe, by row index
    processed_urls,
    rows_to_process,
    skipped,
    row,              \* number of rows the filter loop has consumed
    i,                \* start of the current batch in rows_to_process
    attempt,
    results,
    any_tagged,
    k,                \* number of members of the batch already recorded
    \* history of the current run
    log_at_start,     \* number of ledger rows when the run started
    calls,            \* classifier calls of the current batch: input and outcome
    waits,            \* retry waits of the current batch
    pauses,           \* inter-batch pauses of the run
    submitted,        \* ids placed in a batch handed to the classifier
    written,          \* ids whose tags_ai cell was assigned
    appended,         \* ids for which a ledger row was appended, in order
    exhausted,        \* batches whose MAX_RETRIES attempts all failed
    given_up,         \* batches reported as skipped
    printed_skipped,  \* the count printed by line 238, or -1
    url_strs,         \* url_str of line 228 for each row consumed (empty when not computed)
    warned,           \* the load of the ledger printed its warning (line 180)
    \* history of the run before, kept until the filter loop of this run is over
    prev_given_up,    \* ids of the members of the batches that run reported as skipped
    \* a single call of a pure function: its argument and its result
    probe

vars ==
    << xlsx, log_file, out_file, run, pc, df, processed_urls, rows_to_process,
       skipped, row, i, attempt, results, any_tagged, k, log_at_start, calls,
       waits, pauses, submitted, written, appended, exhausted, given_up,
       printed_skipped, url_strs, warned, prev_given_up, probe >>

(***************************************************************************)
(* Inputs                                                                  *)
(***************************************************************************)
\* "", "a", "a//", "b "
UrlPool == { <<>>, <<"a">>, <<"a", "/", "/">>, <<"b", " ">> }

\* value of a tags_ai cell the input brings along
OldTags == <<"o">>

InputRow(u, has_tags) ==
    [url |-> u, content |-> <<" ", "t">>, title |-> NA,
     tags_ai |-> IF has_tags THEN OldTags ELSE NA]

\* the inputs of MaxRows rows; a row with an empty URL is passed over by the
\* filter, so shorter inputs add no behaviour
Datasets ==
    { [has_tags_ai |-> h, rows |-> [n \in 1..MaxRows |-> InputRow(us[n], h)]] :
        h \in BOOLEAN, us \in [1..MaxRows -> UrlPool] }

(***************************************************************************)
(* Ledger file                                                             *)
(***************************************************************************)
LOG_COLUMNS == <<"url", "processing_date", "generated_tags", "instruction_version", "language_model">>

\* mutant: the header is written whether or not the file exists
_ensure_log_file_exists_rewriting(f) ==
    [exists |-> TRUE, parsable |-> TRUE, header |-> LOG_COLUMNS, rows |-> <<>>]

_ensure_log_file_exists(f) ==
    IF ~f.exists
    THEN [exists |-> TRUE, parsable |-> TRUE, header |-> LOG_COLUMNS, rows |-> <<>>]
    ELSE f

\* mutant: the ledger is opened with mode "w" instead of "a"
_append_log_row_truncating(f, url, generated_tags) ==
    [f EXCEPT !.rows = <<[url |-> url, generated_tags |-> generated_tags]>>]

\* the processing date, the instruction version and the model name are
\* never read back by the program and are left out of the row
_append_log_row(f, url, generated_tags) ==
    [f EXCEPT !.rows = Append(@, [url |-> url, generated_tags |-> generated_tags])]

\* pandas.read_csv of the url column: an empty field is read as missing
read_csv_url(field) == IF field = <<>> THEN NA ELSE field

\* f.parsable: pandas.read_csv can read the file; when it raises, the except
\* branch of lines 179-181 prints the warning and returns the empty set
_load_processed_urls(f) ==
    IF ~f.exists THEN {}
    ELSE IF ~f.parsable THEN {}
    ELSE IF ~("url" \in { f.header[n] : n \in 1..Len(f.header) }) THEN {}
    ELSE LET col == [n \in 1..Len(f.rows) |-> read_csv_url(f.rows[n].url)]
             present == { col[n] : n \in { m \in 1..Len(col) : ~pd_isna(col[m]) } }
         IN  { _normalize_url(u) : u \in { v \in present : _normalize_url(v) # <<>> } }

\* the warning of line 180 is printed by the except branch and nowhere else
_load_processed_urls_warns(f) == f.exists /\ ~f.parsable

(***************************************************************************)
(* Batches                                                                 *)
(***************************************************************************)
Min(a, b) == IF a < b THEN a ELSE b

\* mutant: the slice is rows_to_process[i : i + BATCH_SIZE + 1]
Batch_overlapping(queue, start) ==
    SubSeq(queue, start + 1, Min(start + BATCH_SIZE + 1, Len(queue)))

\* rows_to_process[i : i + BATCH_SIZE]
Batch(queue, start) == SubSeq(queue, start + 1, Min(start + BATCH_SIZE, Len(queue)))

ki_input(batch) == [n \in 1..Len(batch) |-> <<batch[n][1], batch[n][2]>>]

ids(batch) == { batch[n][1] : n \in 1..Len(batch) }

(***************************************************************************)
(* Init: before the first run; the ledger does not exist yet.              *)
(***************************************************************************)
Fresh ==
    /\ out_file = [written |-> FALSE, rows |-> <<>>]
    /\ pc = "start"
    /\ df = <<>>
    /\ processed_urls = {}
    /\ rows_to_process = <<>>
    /\ skipped = 0
    /\ row = 0
    /\ i = 0
    /\ attempt = 0
    /\ results = NoneResult
    /\ any_tagged = FALSE
    /\ k = 0
    /\ log_at_start = 0
    /\ calls = <<>>
    /\ waits = 0
    /\ pauses = 0
    /\ submitted = {}
    /\ written = {}
    /\ appended = <<>>
    /\ exhausted = {}
    /\ given_up = {}
    /\ printed_skipped = 0 - 1
    /\ url_strs = <<>>
    /\ warned = FALSE
    /\ prev_given_up = {}

\* no pure function is being probed
Idle == [fn |-> "none"]

Init ==
    /\ xlsx \in Datasets
    /\ log_file = [exists |-> FALSE, parsable |-> TRUE, header |-> <<>>, rows |-> <<>>]
    /\ run = 1
    /\ probe = Idle
    /\ Fresh

(***************************************************************************)
(* main(), lines 207-220: read the dataset, make sure the column tags_ai   *)
(* and the ledger exist, load the processed URLs.                          *)
(***************************************************************************)
Load ==
    /\ pc = "start"
    /\ df' = [n \in 1..Len(xlsx.rows) |->
                 IF xlsx.has_tags_ai THEN xlsx.rows[n].tags_ai ELSE <<>>]
    /\ log_file' = _ensure_log_file_exists(log_file)
    /\ processed_urls' = _load_processed_urls(log_file')
    /\ log_at_start' = Len(log_file'.rows)
    /\ rows_to_process' = <<>>
    /\ skipped' = 0
    /\ row' = 0
    /\ url_strs' = <<>>
    /\ warned' = _load_processed_urls_warns(log_file')
    /\ pc' = "filter"
    /\ UNCHANGED << probe, prev_given_up, xlsx, out_file, run, i, attempt, results, any_tagged, k, calls,
                    waits, pauses, submitted, written, appended, exhausted,
                    given_up, printed_skipped >>

\* mutant: the URL is not marked as seen when it is enqueued (line 235)
FilterRow_unmarked ==
    /\ pc = "filter"
    /\ row < Len(xlsx.rows)
    /\ LET r == xlsx.rows[row + 1]
           idx == row
           url_str == _normalize_url(r.url)
       IN  IF pd_isna(r.url) \/ Strip(r.url) = <<>>
           THEN /\ url_strs' = Append(url_strs, <<>>)
                /\ UNCHANGED << rows_to_process, processed_urls, skipped >>
           ELSE /\ url_strs' = Append(url_strs, url_str)
                /\ IF url_str = <<>> \/ url_str \in processed_urls
                   THEN /\ skipped' = IF url_str # <<>> /\ url_str \in processed_urls
                                      THEN skipped + 1 ELSE skipped
                        /\ UNCHANGED << rows_to_process, processed_urls >>
                   ELSE /\ \E transcript \in Transcripts(r) :
                             rows_to_process' =
                                 Append(rows_to_process,
                                        <<idx, get_content_for_tagging(r, transcript),
                                          url_str>>)
                        /\ UNCHANGED processed_urls
                        /\ UNCHANGED skipped
    /\ row' = row + 1
    /\ UNCHANGED << probe, prev_given_up, warned, xlsx, log_file, out_file, run, pc, df, i, attempt, results,
                    any_tagged, k, log_at_start, calls, waits, pauses, submitted,
                    written, appended, exhausted, given_up, printed_skipped >>

\* mutant: line 229 tests the membership only, not the empty url_str
FilterRow_unguarded ==
    /\ pc = "filter"
    /\ row < Len(xlsx.rows)
    /\ LET r == xlsx.rows[row + 1]
           idx == row
           url_str == _normalize_url(r.url)
       IN  IF pd_isna(r.url) \/ Strip(r.url) = <<>>
           THEN /\ url_strs' = Append(url_strs, <<>>)
                /\ UNCHANGED << rows_to_process, processed_urls, skipped >>
           ELSE /\ url_strs' = Append(url_strs, url_str)
                /\ IF url_str \in processed_urls
                   THEN /\ skipped' = IF url_str # <<>> /\ url_str \in processed_urls
                                      THEN skipped + 1 ELSE skipped
                        /\ UNCHANGED << rows_to_process, processed_urls >>
                   ELSE /\ \E transcript \in Transcripts(r) :
                             rows_to_process' =
                                 Append(rows_to_process,
                                        <<idx, get_content_for_tagging(r, transcript),
                                          url_str>>)
                        /\ processed_urls' = processed_urls \cup {url_str}
                        /\ UNCHANGED skipped
    /\ row' = row + 1
    /\ UNCHANGED << probe, prev_given_up, warned, xlsx, log_file, out_file, run, pc, df, i, attempt, results,
                    any_tagged, k, log_at_start, calls, waits, pauses, submitted,
                    written, appended, exhausted, given_up, printed_skipped >>

(***************************************************************************)
(* One iteration of the filter loop, lines 224-235.                        *)
(***************************************************************************)
FilterRow ==
    /\ pc = "filter"
    /\ row < Len(xlsx.rows)
    /\ LET r == xlsx.rows[row + 1]
           idx == row
           url_str == _normalize_url(r.url)
       IN  IF pd_isna(r.url) \/ Strip(r.url) = <<>>
           THEN /\ url_strs' = Append(url_strs, <<>>)
                /\ UNCHANGED << rows_to_process, processed_urls, skipped >>
           ELSE /\ url_strs' = Append(url_strs, url_str)
                /\ IF url_str = <<>> \/ url_str \in processed_urls
                   THEN /\ skipped' = IF url_str # <<>> /\ url_str \in processed_urls
                                      THEN skipped + 1 ELSE skipped
                        /\ UNCHANGED << rows_to_process, processed_urls >>
                   ELSE /\ \E transcript \in Transcripts(r) :
                             rows_to_process' =
                                 Append(rows_to_process,
                                        <<idx, get_content_for_tagging(r, transcript),
                                          url_str>>)
                        /\ processed_urls' = processed_urls \cup {url_str}
                        /\ UNCHANGED skipped
    /\ row' = row + 1
    /\ UNCHANGED << probe, prev_given_up, warned, xlsx, log_file, out_file, run, pc, df, i, attempt, results,
                    any_tagged, k, log_at_start, calls, waits, pauses, submitted,
                    written, appended, exhausted, given_up, printed_skipped >>

\* mutant: the skipped count is printed after the early return only
FilterDone_silent ==
    /\ pc = "filter"
    /\ row = Len(xlsx.rows)
    /\ printed_skipped' = IF skipped # 0 /\ rows_to_process # <<>> THEN skipped ELSE printed_skipped
    /\ IF rows_to_process = <<>>
       THEN pc' = "done"
       ELSE pc' = "submit"
    /\ any_tagged' = FALSE
    /\ i' = 0
    /\ attempt' = 0
    /\ results' = NoneResult
    /\ prev_given_up' = {}
    /\ UNCHANGED << probe, warned, xlsx, log_file, out_file, run, df, processed_urls,
                    rows_to_process, skipped, row, k, log_at_start, calls, waits,
                    pauses, submitted, written, appended, exhausted, given_up, url_strs >>

(***************************************************************************)
(* After the filter loop, lines 237-245: report the skipped rows; return   *)
(* when nothing is left, else enter the batch loop.                        *)
(***************************************************************************)
FilterDone ==
    /\ pc = "filter"
    /\ row = Len(xlsx.rows)
    /\ printed_skipped' = IF skipped # 0 THEN skipped ELSE printed_skipped
    /\ IF rows_to_process = <<>>
       THEN pc' = "done"
       ELSE pc' = "submit"
    /\ any_tagged' = FALSE
    /\ i' = 0
    /\ attempt' = 0
    /\ results' = NoneResult
    /\ prev_given_up' = {}
    /\ UNCHANGED << probe, warned, xlsx, log_file, out_file, run, df, processed_urls,
                    rows_to_process, skipped, row, k, log_at_start, calls, waits,
                    pauses, submitted, written, appended, exhausted, given_up, url_strs >>

\* mutant: the retry loop runs once more than MAX_RETRIES (off by one)
Submit_extra_attempt ==
    /\ pc = "submit"
    /\ LET batch == Batch(rows_to_process, i)
       IN  /\ \E r \in _process_batch(ki_input(batch)) :
                 /\ results' = r
                 /\ calls' = Append(calls, [input |-> ki_input(batch),
                                            ok |-> r # NoneResult])
                 /\ IF r # NoneResult
                    THEN pc' = "check" /\ UNCHANGED exhausted
                    ELSE IF attempt < MAX_RETRIES
                    THEN /\ pc' = "retry_wait"
                         /\ exhausted' = IF attempt = MAX_RETRIES - 1
                                         THEN exhausted \cup {i} ELSE exhausted
                    ELSE pc' = "check" /\ UNCHANGED exhausted
           /\ submitted' = submitted \cup ids(batch)
    /\ UNCHANGED << probe, prev_given_up, warned, xlsx, log_file, out_file, run, df, processed_urls,
                    rows_to_process, skipped, row, i, attempt, any_tagged, k,
                    log_at_start, waits, pauses, written, appended, given_up,
                    printed_skipped, url_strs >>

(***************************************************************************)
(* One attempt of the retry loop, lines 252-256.                           *)
(***************************************************************************)
Submit ==
    /\ pc = "submit"
    /\ LET batch == Batch(rows_to_process, i)
       IN  /\ \E r \in _process_batch(ki_input(batch)) :
                 /\ results' = r
                 /\ calls' = Append(calls, [input |-> ki_input(batch),
                                            ok |-> r # NoneResult])
                 /\ IF r # NoneResult
                    THEN pc' = "check" /\ UNCHANGED exhausted
                    ELSE IF attempt < MAX_RETRIES - 1
                    THEN pc' = "retry_wait" /\ UNCHANGED exhausted
                    ELSE pc' = "check" /\ exhausted' = exhausted \cup {i}
           /\ submitted' = submitted \cup ids(batch)
    /\ UNCHANGED << probe, prev_given_up, warned, xlsx, log_file, out_file, run, df, processed_urls,
                    rows_to_process, skipped, row, i, attempt, any_tagged, k,
                    log_at_start, waits, pauses, written, appended, given_up,
                    printed_skipped, url_strs >>

(***************************************************************************)
(* The wait before the next attempt, lines 256-258.                        *)
(***************************************************************************)
RetryWait ==
    /\ pc = "retry_wait"
    /\ waits' = waits + 1
    /\ attempt' = attempt + 1
    /\ pc' = "submit"
    /\ UNCHANGED << probe, prev_given_up, warned, xlsx, log_file, out_file, run, df, processed_urls,
                    rows_to_process, skipped, row, i, results, any_tagged, k,
                    log_at_start, calls, pauses, submitted, written, appended,
                    exhausted, given_up, printed_skipped, url_strs >>

\* mutant: the give-up branch ends with `continue`, passing over line 271
Check_continue ==
    /\ pc = "check"
    /\ IF Truthy(results)
       THEN /\ any_tagged' = TRUE
            /\ k' = 0
            /\ pc' = "record"
            /\ UNCHANGED << given_up, i, attempt, results, calls, waits >>
       ELSE /\ given_up' = given_up \cup {i}
            /\ IF i + BATCH_SIZE < Len(rows_to_process)
               THEN /\ i' = i + BATCH_SIZE
                    /\ attempt' = 0
                    /\ results' = NoneResult
                    /\ calls' = <<>>
                    /\ waits' = 0
                    /\ pc' = "submit"
               ELSE /\ pc' = "export"
                    /\ UNCHANGED << i, attempt, results, calls, waits >>
            /\ UNCHANGED << any_tagged, k >>
    /\ UNCHANGED << probe, prev_given_up, warned, xlsx, log_file, out_file, run, df,
                    processed_urls, rows_to_process, skipped, row,
                    log_at_start, pauses, submitted, written,
                    appended, exhausted, printed_skipped, url_strs >>

\* mutant: the give-up branch blanks the cells of the batch
Check_blanking ==
    /\ pc = "check"
    /\ IF Truthy(results)
       THEN /\ any_tagged' = TRUE
            /\ k' = 0
            /\ pc' = "record"
            /\ UNCHANGED << given_up, df, written >>
       ELSE /\ given_up' = given_up \cup {i}
            /\ pc' = "pause"
            /\ df' = [n \in 1..Len(df) |->
                         IF (n - 1) \in ids(Batch(rows_to_process, i)) THEN <<>> ELSE df[n]]
            /\ written' = written \cup ids(Batch(rows_to_process, i))
            /\ UNCHANGED << any_tagged, k >>
    /\ UNCHANGED << probe, prev_given_up, warned, xlsx, log_file, out_file, run, processed_urls,
                    rows_to_process, skipped, row, i, attempt, results,
                    log_at_start, calls, waits, pauses, submitted,
                    appended, exhausted, printed_skipped, url_strs >>

(***************************************************************************)
(* The branch on the result, lines 260-261 and 268-269.                    *)
(***************************************************************************)
Check ==
    /\ pc = "check"
    /\ IF Truthy(results)
       THEN /\ any_tagged' = TRUE
            /\ k' = 0
            /\ pc' = "record"
            /\ UNCHANGED given_up
       ELSE /\ given_up' = given_up \cup {i}
            /\ pc' = "pause"
            /\ UNCHANGED << any_tagged, k >>
    /\ UNCHANGED << probe, prev_given_up, warned, xlsx, log_file, out_file, run, df, processed_urls,
                    rows_to_process, skipped, row, i, attempt, results,
                    log_at_start, calls, waits, pauses, submitted, written,
                    appended, exhausted, printed_skipped, url_strs >>

\* mutant: the cell is addressed by the position in the batch, not by the id
RecordOne_positional ==
    /\ pc = "record"
    /\ LET batch == Batch(rows_to_process, i)
           idx_in_batch == batch[k + 1][1]
           url == batch[k + 1][3]
           raw_tags == IF idx_in_batch \in DOMAIN results.map
                       THEN results.map[idx_in_batch]
                       ELSE ListValue(<<>>)
       IN  IF results.kind # "dict" \/ raw_tags.kind # "list"
           THEN /\ pc' = "crashed"
                /\ UNCHANGED << df, log_file, written, appended, k >>
           ELSE LET final_string == _validate_and_format_tags(raw_tags.items)
                IN  /\ df' = [df EXCEPT ![k + 1] = final_string]
                    /\ log_file' = _append_log_row(log_file, url, final_string)
                    /\ written' = written \cup {idx_in_batch}
                    /\ appended' = Append(appended, idx_in_batch)
                    /\ k' = k + 1
                    /\ pc' = IF k + 1 = Len(batch) THEN "pause" ELSE "record"
    /\ UNCHANGED << probe, prev_given_up, warned, xlsx, out_file, run, processed_urls, rows_to_process, skipped,
                    row, i, attempt, results, any_tagged, log_at_start, calls,
                    waits, pauses, submitted, exhausted, given_up, printed_skipped, url_strs >>

(***************************************************************************)
(* One iteration of the record loop, lines 262-267.  results.get raises    *)
(* AttributeError on a value that is no JSON object, and iterating a null  *)
(* label list raises TypeError; neither is caught, so the run ends there.  *)
(***************************************************************************)
RecordOne ==
    /\ pc = "record"
    /\ LET batch == Batch(rows_to_process, i)
           idx_in_batch == batch[k + 1][1]
           url == batch[k + 1][3]
           raw_tags == IF idx_in_batch \in DOMAIN results.map
                       THEN results.map[idx_in_batch]
                       ELSE ListValue(<<>>)
       IN  IF results.kind # "dict" \/ raw_tags.kind # "list"
           THEN /\ pc' = "crashed"
                /\ UNCHANGED << df, log_file, written, appended, k >>
           ELSE LET final_string == _validate_and_format_tags(raw_tags.items)
                IN  /\ df' = [df EXCEPT ![idx_in_batch + 1] = final_string]
                    /\ log_file' = _append_log_row(log_file, url, final_string)
                    /\ written' = written \cup {idx_in_batch}
                    /\ appended' = Append(appended, idx_in_batch)
                    /\ k' = k + 1
                    /\ pc' = IF k + 1 = Len(batch) THEN "pause" ELSE "record"
    /\ UNCHANGED << probe, prev_given_up, warned, xlsx, out_file, run, processed_urls, rows_to_process, skipped,
                    row, i, attempt, results, any_tagged, log_at_start, calls,
                    waits, pauses, submitted, exhausted, given_up, printed_skipped, url_strs >>

(***************************************************************************)
(* The pause after a batch, line 271, and the head of the next iteration,  *)
(* lines 246-251.                                                          *)
(***************************************************************************)
Pause ==
    /\ pc = "pause"
    /\ pauses' = pauses + 1
    /\ IF i + BATCH_SIZE < Len(rows_to_process)
       THEN /\ i' = i + BATCH_SIZE
            /\ attempt' = 0
            /\ results' = NoneResult
            /\ calls' = <<>>
            /\ waits' = 0
            /\ pc' = "submit"
       ELSE /\ pc' = "export"
            /\ UNCHANGED << i, attempt, results, calls, waits >>
    /\ UNCHANGED << probe, prev_given_up, warned, xlsx, log_file, out_file, run, df, processed_urls,
                    rows_to_process, skipped, row, any_tagged, k, log_at_start,
                    submitted, written, appended, exhausted, given_up,
                    printed_skipped, url_strs >>

(***************************************************************************)
(* The export decision, lines 273-279.                                     *)
(***************************************************************************)
Export ==
    /\ pc = "export"
    /\ out_file' = IF any_tagged THEN [written |-> TRUE, rows |-> df] ELSE out_file
    /\ pc' = "done"
    /\ UNCHANGED << probe, prev_given_up, warned, xlsx, log_file, run, df, processed_urls, rows_to_process,
                    skipped, row, i, attempt, results, any_tagged, k, log_at_start,
                    calls, waits, pauses, submitted, written, appended, exhausted,
                    given_up, printed_skipped, url_strs >>

(***************************************************************************)
(* The script is started again, lines 282-283, over the same input and     *)
(* ledger; nothing in memory survives.                                     *)
(***************************************************************************)
NextRun ==
    /\ pc \in {"done", "crashed"}
    /\ run < MaxRuns
    /\ run' = run + 1
    /\ out_file' = [written |-> FALSE, rows |-> <<>>]
    /\ pc' = "start"
    /\ df' = <<>>
    /\ processed_urls' = {}
    /\ rows_to_process' = <<>>
    /\ skipped' = 0
    /\ row' = 0
    /\ i' = 0
    /\ attempt' = 0
    /\ results' = NoneResult
    /\ any_tagged' = FALSE
    /\ k' = 0
    /\ log_at_start' = Len(log_file.rows)
    /\ calls' = <<>>
    /\ waits' = 0
    /\ pauses' = 0
    /\ submitted' = {}
    /\ written' = {}
    /\ appended' = <<>>
    /\ exhausted' = {}
    /\ given_up' = {}
    /\ printed_skipped' = 0 - 1
    /\ url_strs' = <<>>
    /\ prev_given_up' = UNION { ids(Batch(rows_to_process, b)) : b \in given_up }
    /\ warned' = FALSE
    /\ UNCHANGED << probe, xlsx, log_file >>

Next ==
    \/ Load
    \/ FilterRow
    \/ FilterDone
    \/ Submit
    \/ RetryWait
    \/ Check
    \/ RecordOne
    \/ Pause
    \/ Export
    \/ NextRun

Spec == Init /\ [][Next]_vars

(***************************************************************************)
(* Runs over inputs that bring a tags_ai column along and whose URLs are   *)
(* empty or already in normal form, so that the ledger of one run is read  *)
(* back unchanged by the next.                                             *)
(***************************************************************************)
\* "", "a", "b", "c"
PlainUrlPool == { <<>>, <<"a">>, <<"b">>, <<"c">> }

PlainDatasets ==
    { [has_tags_ai |-> TRUE, rows |-> [n \in 1..MaxRows |-> InputRow(us[n], TRUE)]] :
        us \in [1..MaxRows -> PlainUrlPool] }

InitPlain ==
    /\ xlsx \in PlainDatasets
    /\ log_file = [exists |-> FALSE, parsable |-> TRUE, header |-> <<>>, rows |-> <<>>]
    /\ run = 1
    /\ probe = Idle
    /\ Fresh

SpecPlain == InitPlain /\ [][Next]_vars

(***************************************************************************)
(* Runs over inputs with missing and blank URLs.                           *)
(***************************************************************************)
\* missing, " /", "//", "a"
EdgeUrlPool == { NA, <<" ", "/">>, <<"/", "/">>, <<"a">> }

EdgeDatasets ==
    { [has_tags_ai |-> TRUE, rows |-> [n \in 1..MaxRows |-> InputRow(us[n], TRUE)]] :
        us \in [1..MaxRows -> EdgeUrlPool] }

InitEdge ==
    /\ xlsx \in EdgeDatasets
    /\ log_file = [exists |-> FALSE, parsable |-> TRUE, header |-> <<>>, rows |-> <<>>]
    /\ run = 1
    /\ probe = Idle
    /\ Fresh

SpecEdge == InitEdge /\ [][Next]_vars

(***************************************************************************)
(* Runs started with a ledger the load cannot use.                         *)
(***************************************************************************)
\* a header whose first column is not named "url"
OtherHeader == <<"link", "processing_date", "generated_tags", "instruction_version", "language_model">>

\* the ledgers the load fails on: one without a column "url", and one that
\* pandas cannot read (bytes that are no text; the rows appended to it leave
\* it unreadable)
BadLedgers ==
    { [exists |-> TRUE, parsable |-> TRUE, header |-> OtherHeader, rows |-> <<>>],
      [exists |-> TRUE, parsable |-> FALSE, header |-> <<>>, rows |-> <<>>] }

InitBadLedger ==
    /\ xlsx \in EdgeDatasets
    /\ log_file \in BadLedgers
    /\ run = 1
    /\ probe = Idle
    /\ Fresh

SpecBadLedger == InitBadLedger /\ [][Next]_vars

\* the program itself has not been started
NotStarted ==
    /\ xlsx = [has_tags_ai |-> FALSE, rows |-> <<>>]
    /\ log_file = [exists |-> FALSE, parsable |-> TRUE, header |-> <<>>, rows |-> <<>>]
    /\ run = 1
    /\ Fresh

program_vars ==
    << xlsx, log_file, out_file, run, pc, df, processed_urls, rows_to_process,
       skipped, row, i, attempt, results, any_tagged, k, log_at_start, calls,
       waits, pauses, submitted, written, appended, exhausted, given_up,
       printed_skipped, url_strs, warned, prev_given_up >>

(***************************************************************************)
(* The content selector on its own: get_content_for_tagging is called with *)
(* a row, the transcript retrieval doing what `fetched` says.              *)
(***************************************************************************)
\* youtu.be/x
ShortLink == <<"y", "o", "u", "t", "u", ".", "b", "e", "/", "x">>
\* https://youtube.com/watch?v=x
WatchLink == <<"h", "t", "t", "p", "s", ":", "/", "/", "y", "o", "u", "t", "u", "b", "e", ".", "c", "o", "m", "/", "w", "a", "t", "c", "h", "?", "v", "=", "x">>
\* youtube.com/watch
WatchNoId == <<"y", "o", "u", "t", "u", "b", "e", ".", "c", "o", "m", "/", "w", "a", "t", "c", "h">>

ContentRows ==
    { [url |-> u, content |-> c, title |-> t, tags_ai |-> NA] :
        u \in {ShortLink, WatchLink, WatchNoId, <<"a">>},
        c \in {NA, <<" ">>, <<" ", "t", " ">>},
        t \in {NA, <<>>, <<" ", "L", " ">>} }

InitContent ==
    /\ \E r \in ContentRows : \E f \in ApiOutcomes :
           probe = [fn |-> "content", called |-> FALSE, row |-> r, fetched |-> f,
                    res |-> <<>>]
    /\ NotStarted

Select ==
    /\ probe.fn = "content"
    /\ ~probe.called
    /\ LET transcript == IF is_youtube(probe.row) /\ content_empty(probe.row)
                         THEN _fetch_youtube_transcript(probe.row.url, probe.fetched)
                         ELSE NoneStr
       IN  probe' = [probe EXCEPT !.called = TRUE,
                                  !.res = get_content_for_tagging(probe.row, transcript)]
    /\ UNCHANGED program_vars

NextContent == Select

SpecContent == InitContent /\ [][NextContent]_vars

(***************************************************************************)
(* The validator on its own: _validate_and_format_tags is called with a    *)
(* raw label list and with a reordering of the same list.                  *)
(***************************************************************************)
MaxLabels == 4

\* "Au", "ba", " LU ", "au" and a non-string
LabelPool ==
    { StrEntry(<<"A", "u">>), StrEntry(<<"b", "a">>), StrEntry(<<" ", "L", "U", " ">>),
      StrEntry(<<"a", "u">>), NonStrEntry }

LabelLists == UNION { [1..n -> LabelPool] : n \in 0..MaxLabels }

Reorderings(l) == { [n \in 1..Len(l) |-> l[pi[n]]] : pi \in Permutations(1..Len(l)) }

InitValidate ==
    /\ \E l \in LabelLists : \E p \in Reorderings(l) :
           probe = [fn |-> "validate", called |-> FALSE, arg |-> l, reordered |-> p,
                    res |-> <<>>, res_reordered |-> <<>>]
    /\ NotStarted

Validate ==
    /\ probe.fn = "validate"
    /\ ~probe.called
    /\ probe' = [probe EXCEPT !.called = TRUE,
                              !.res = _validate_and_format_tags(probe.arg),
                              !.res_reordered = _validate_and_format_tags(probe.reordered)]
    /\ UNCHANGED program_vars

NextValidate == Validate

SpecValidate == InitValidate /\ [][NextValidate]_vars

(***************************************************************************)
(* Vocabulary of the properties                                            *)
(***************************************************************************)
\* the URL cell of the record with index idx
UrlOf(idx) == xlsx.rows[idx + 1].url

\* the ledger rows that existed when the current run started, and those the
\* current run has appended
RowsAtStart == SubSeq(log_file.rows, 1, log_at_start)
RunRows == SubSeq(log_file.rows, log_at_start + 1, Len(log_file.rows))

Range(f) == { f[n] : n \in DOMAIN f }

QueueIds == ids(rows_to_process)

\* position in rows_to_process of an enqueued id, and the start of its batch
PosOf(idx) == CHOOSE n \in 1..Len(rows_to_process) : rows_to_process[n][1] = idx
BatchOf(idx) == ((PosOf(idx) - 1) \div BATCH_SIZE) * BATCH_SIZE

InBatchLoop == pc \in {"submit", "retry_wait", "check", "record", "pause"}

\* C1: a record whose normalized URL is the url field of a ledger entry
\* that existed at the start of the run is never placed in a batch handed
\* to the classifier
C1_LedgerUrlNeverResubmitted ==
    \A idx \in submitted :
        \A n \in 1..Len(RowsAtStart) : RowsAtStart[n].url # _normalize_url(UrlOf(idx))

\* the value the dataframe holds in tags_ai before any write of the run
OrigCell(idx) == IF xlsx.has_tags_ai THEN xlsx.rows[idx + 1].tags_ai ELSE <<>>

\* the normalized URL under which an enqueued id stands in the queue
QueueUrl(idx) == rows_to_process[PosOf(idx)][3]

\* the set load() produced at the start of the current run
LoadedAtStart ==
    IF log_at_start = 0 THEN {}
    ELSE _load_processed_urls([log_file EXCEPT !.rows = RowsAtStart])

\* the raw labels the response holds for an id (missing id: empty list)
RawFor(r, idx) == IF idx \in DOMAIN r.map THEN r.map[idx] ELSE ListValue(<<>>)

\* the tags of a stored tag string
TagsOf(s) == IF s = <<>> THEN <<>> ELSE Split(s, ",")

\* C2: after a classifier call that returned a JSON object, also an empty
\* one or one without any id of the batch, every member of the batch has
\* its cell written with the validated tag string and exactly one ledger
\* row, and the batch is not reported as given up
C2_NonNullMappingIsRecorded ==
    (pc = "pause" /\ results.kind = "dict") =>
        LET batch == Batch(rows_to_process, i)
        IN  /\ i \notin given_up
            /\ \A n \in 1..Len(batch) :
                 LET idx == batch[n][1]
                 IN  /\ idx \in written
                     /\ RawFor(results, idx).kind = "list" =>
                            df[idx + 1] = _validate_and_format_tags(RawFor(results, idx).items)
                     /\ Cardinality({ m \in 1..Len(appended) : appended[m] = idx }) = 1

\* C3: a batch whose MAX_RETRIES attempts all failed has, for none of its
\* members, a ledger row appended or a tags_ai cell written during the run
C3_ExhaustedBatchLeavesNoTrace ==
    \A b \in exhausted :
        \A idx \in ids(Batch(rows_to_process, b)) :
            /\ idx \notin written
            /\ idx \notin Range(appended)
            /\ df[idx + 1] = OrigCell(idx)
            /\ \A n \in 1..Len(RunRows) : RunRows[n].url # QueueUrl(idx)

C3_Witness ==
    /\ pc = "done"
    /\ exhausted # {}
    /\ written # {}
    /\ Len(RunRows) > 0

\* C4: a batch is handed to the classifier at least once and at most
\* MAX_RETRIES times, never again after a call that succeeded, always with
\* the same contents; one retry wait lies between two consecutive attempts
\* and none follows the last attempt
C4_RetryDiscipline ==
    /\ Len(calls) <= MAX_RETRIES
    /\ \A n \in 1..(Len(calls) - 1) : ~calls[n].ok
    /\ InBatchLoop =>
          /\ \A n \in 1..Len(calls) : calls[n].input = ki_input(Batch(rows_to_process, i))
          /\ pc = "submit" => waits = Len(calls) /\ Len(calls) < MAX_RETRIES
          /\ pc = "retry_wait" => waits = Len(calls) - 1 /\ Len(calls) < MAX_RETRIES
          /\ pc \in {"check", "record", "pause"} =>
                /\ Len(calls) >= 1
                /\ waits = Len(calls) - 1
                /\ calls[Len(calls)].ok \/ Len(calls) = MAX_RETRIES

C4_Witness ==
    /\ pc = "pause"
    /\ Len(calls) = MAX_RETRIES
    /\ calls[MAX_RETRIES].ok
    /\ waits = MAX_RETRIES - 1
    /\ Len(calls[1].input) = BATCH_SIZE

BatchSucceeded(b) ==
    IF b = i THEN calls # <<>> /\ calls[Len(calls)].ok ELSE b < i /\ b \notin exhausted

\* the starts of the batches before the current one
EarlierBatches == { b \in 0..(i - 1) : b % BATCH_SIZE = 0 }

\* C6: in every state the ledger rows appended by the run are those of
\* records whose batch has already got a successful response, in the order
\* of their recording; no row of a batch exists before its response, every
\* row of a recorded batch exists before the next batch is submitted, and
\* every written record has its row when its batch ends
C6_AppendAfterSuccessInBatchOrder ==
    /\ Len(RunRows) = Len(appended)
    /\ Range(appended) = written
    /\ \A n \in 1..Len(appended) :
          /\ appended[n] \in QueueIds
          /\ n <= Len(RunRows) => RunRows[n].url = QueueUrl(appended[n])
          /\ BatchOf(appended[n]) <= i
          /\ BatchSucceeded(BatchOf(appended[n]))
          /\ pc \in {"submit", "retry_wait", "check"} => BatchOf(appended[n]) < i
    /\ InBatchLoop =>
          \A b \in EarlierBatches :
              b \notin given_up => ids(Batch(rows_to_process, b)) \subseteq Range(appended)
    /\ (pc \in {"pause", "export", "done"} /\ rows_to_process # <<>> /\ i \notin given_up) =>
          ids(Batch(rows_to_process, i)) \subseteq Range(appended)

C6_Witness ==
    /\ pc = "submit"
    /\ i = BATCH_SIZE
    /\ calls = <<>>
    /\ Len(RunRows) = BATCH_SIZE

ValidTagString(s) ==
    LET t == TagsOf(s)
    IN  \A n \in 1..Len(t) :
            /\ \E a \in ALLOWED_TAGS : t[n] = TagPrefix \o a
            /\ \A m \in 1..Len(t) : m # n => t[m] # t[n]

\* C7: every tag written to a tags_ai cell, to the ledger or to the output
\* artifact is the prefix followed by a member of the allow-list, and no
\* tag occurs twice in one tag string
C7_WrittenTagsValid ==
    /\ \A n \in 1..Len(log_file.rows) : ValidTagString(log_file.rows[n].generated_tags)
    /\ \A idx \in written : ValidTagString(df[idx + 1])
    /\ out_file.written => \A idx \in written : ValidTagString(out_file.rows[idx + 1])

C7_Witness ==
    /\ pc = "pause"
    /\ \E idx \in written :
          /\ idx \in DOMAIN results.map
          /\ results.map[idx] = ListValue(SampleLabels)
          /\ Len(TagsOf(df[idx + 1])) = 2
          /\ \E n \in 1..Len(RunRows) : RunRows[n].generated_tags = df[idx + 1]

\* C8: when a run has ended, the output artifact is written exactly if a
\* record was tagged during the run, and then holds every row of the input
C8_ExportIffTagged ==
    pc \in {"done", "crashed"} =>
        /\ out_file.written <=> written # {}
        /\ out_file.written => Len(out_file.rows) = Len(xlsx.rows)

\* every record has a URL that load() returned at the start of the run
AllInLedger ==
    /\ Len(xlsx.rows) > 0
    /\ LET loaded == LoadedAtStart
       IN  \A idx \in 0..(Len(xlsx.rows) - 1) : _normalize_url(UrlOf(idx)) \in loaded

\* C9: when every record's URL is already in the ledger the run ends after
\* filtering: no classifier call, no ledger row, no output artifact, and the
\* number of skipped records is reported
C9_NothingEligible ==
    (pc \notin {"start", "filter"} /\ AllInLedger) =>
        /\ pc = "done"
        /\ rows_to_process = <<>>
        /\ calls = <<>>
        /\ submitted = {}
        /\ RunRows = <<>>
        /\ written = {}
        /\ ~out_file.written
        /\ skipped = Len(xlsx.rows)
        /\ printed_skipped = skipped

C9_Witness ==
    /\ pc = "done"
    /\ AllInLedger
    /\ run = 2
    /\ printed_skipped = MaxRows

\* C10: no outcome of a classifier call ends the run before the export
\* decision
C10_NoOutcomeEndsTheRun == pc # "crashed"

(***************************************************************************)
(* C11: when a batch was given up in a run, the next run over the same     *)
(* input finds each record of that batch eligible again: when the filter   *)
(* loop of the next run has consumed every row, each record of the batch   *)
(* is in the queue that is then submitted batch by batch.                  *)
(***************************************************************************)
C11_GivenUpBatchEligibleNextRun ==
    (run > 1 /\ pc = "filter" /\ row = Len(xlsx.rows)) =>
        \A idx \in prev_given_up : idx \in QueueIds

(***************************************************************************)
(* C12: normalization is idempotent: normalizing the url_str the filter    *)
(* loop computed for a row (itself the result of _normalize_url) gives     *)
(* that url_str back.                                                      *)
(***************************************************************************)
C12_NormalizeIdempotent ==
    \A n \in DOMAIN url_strs : _normalize_url(url_strs[n]) = url_strs[n]

(***************************************************************************)
(* C13: the validator is order-independent: a raw label list and any       *)
(* reordering of it (with duplicates, mixed case, surrounding whitespace,  *)
(* invalid labels and non-strings) give the same string, and that string   *)
(* is the comma-joined list, in strictly ascending order (so without       *)
(* duplicates), of the prefixed allow-list members that occur in the list  *)
(* once trimmed and lower-cased; ["Au", "ba", " LU ", "au"] gives          *)
(* "B/au,B/lu".                                                            *)
(***************************************************************************)
C13_ValidatorOrderIndependent ==
    (probe.fn = "validate" /\ probe.called) =>
        LET tags == TagsOf(probe.res)
            members == { Strip(Lower(e.s)) : e \in { x \in Range(probe.arg) : x.isstr } }
        IN  /\ probe.res_reordered = probe.res
            /\ \A n \in 1..(Len(tags) - 1) : StrLess(tags[n], tags[n + 1])
            /\ Range(tags) = { TagPrefix \o t : t \in members \cap ALLOWED_TAGS }
            /\ (probe.arg = SubSeq(SampleLabels, 1, 4) =>
                    probe.res = <<"B", "/", "a", "u", ",", "B", "/", "l", "u">>)

\* a list with a duplicate in another case, an invalid label and a
\* non-string was validated together with a reordering that differs from it
C13_Witness ==
    /\ probe.fn = "validate"
    /\ probe.called
    /\ probe.reordered # probe.arg
    /\ StrEntry(<<"A", "u">>) \in Range(probe.arg)
    /\ StrEntry(<<"a", "u">>) \in Range(probe.arg)
    /\ StrEntry(<<" ", "L", "U", " ">>) \in Range(probe.arg)
    /\ probe.arg[1] = NonStrEntry
    /\ probe.res = <<"B", "/", "a", "u", ",", "B", "/", "l", "u">>

(***************************************************************************)
(* C14: when the ledger cannot be read or has no column "url", the load    *)
(* returns the empty set and prints a warning, and the run goes on into    *)
(* the filter loop with nothing to skip: no row is counted as skipped, and *)
(* after the loop the first row of every non-empty url_str is enqueued.    *)
(***************************************************************************)
C14_LedgerLoadFailsSoft ==
    (pc # "start" /\ (~log_file.parsable \/ "url" \notin Range(log_file.header))) =>
        /\ warned
        /\ skipped = 0
        /\ pc \notin {"start", "filter"} =>
              \A n \in DOMAIN url_strs :
                  (url_strs[n] # <<>> /\ \A m \in 1..(n - 1) : url_strs[m] # url_strs[n])
                      => (n - 1) \in QueueIds

(***************************************************************************)
(* C15: a row whose URL is missing, blank or normalizes to the empty       *)
(* string is never enqueued, submitted, written or logged, its cell keeps  *)
(* the input's value, no ledger row has an empty url, and the empty string *)
(* is never in processed_urls (the loaded set and the URLs seen in the     *)
(* run).                                                                   *)
(***************************************************************************)
C15_EmptyUrlNeverProcessed ==
    /\ <<>> \notin processed_urls
    /\ \A n \in DOMAIN log_file.rows : log_file.rows[n].url # <<>>
    /\ \A idx \in 0..(Len(xlsx.rows) - 1) :
          _normalize_url(UrlOf(idx)) = <<>> =>
              /\ idx \notin QueueIds
              /\ idx \notin submitted
              /\ idx \notin written
              /\ idx \notin Range(appended)
              /\ pc # "start" => df[idx + 1] = OrigCell(idx)
              /\ out_file.written => out_file.rows[idx + 1] = OrigCell(idx)

\* a second run ended with an export over an input with a missing URL, a
\* URL " /" that normalizes to the empty string and a URL "//" whose ledger
\* row "/" from the first run normalizes to the empty string on load
C15_Witness ==
    /\ run = 2
    /\ pc = "done"
    /\ out_file.written
    /\ \E a, b, c \in 0..(Len(xlsx.rows) - 1) :
          /\ pd_isna(UrlOf(a))
          /\ UrlOf(b) = <<" ", "/">>
          /\ UrlOf(c) = <<"/", "/">>
          /\ c \in written
    /\ log_at_start > 0
    /\ log_file.parsable /\ "url" \in Range(log_file.header)
    /\ RowsAtStart[1].url = <<"/">>

(***************************************************************************)
(* C16: the ledger is append-only: every step leaves the rows written so   *)
(* far unchanged and in place (the rows before the step are a prefix of    *)
(* the rows after it), within a run and from one run to the next; a ledger *)
(* that exists keeps its header and is never removed, and the step that    *)
(* creates the ledger writes the header and no row.                        *)
(***************************************************************************)
C16_LedgerAppendOnly ==
    [][ /\ Len(log_file.rows) <= Len(log_file'.rows)
        /\ SubSeq(log_file'.rows, 1, Len(log_file.rows)) = log_file.rows
        /\ log_file.exists =>
              (log_file'.exists /\ log_file'.header = log_file.header)
        /\ (~log_file.exists /\ log_file'.exists) =>
              (log_file'.header = LOG_COLUMNS /\ log_file'.rows = <<>>) ]_vars

\* a second run has appended a row behind the rows the first run left
C16_Witness ==
    /\ run = 2
    /\ log_at_start > 0
    /\ Len(log_file.rows) > log_at_start
    /\ log_file.header = LOG_COLUMNS

(***************************************************************************)
(* C17: for a row with empty content whose URL is a video URL of either    *)
(* shape, youtu.be/<id> or youtube.com/watch?v=<id>, the selector returns  *)
(* the trimmed title and the transcript cut to MAX_TRANSCRIPT_CHARS,       *)
(* joined by a newline, an empty part left out; the transcript part is     *)
(* empty when the id cannot be extracted or the retrieval fails.  For a    *)
(* row with non-empty content it returns the trimmed content, whatever the *)
(* URL.                                                                    *)
(***************************************************************************)
C17_ContentSelection ==
    (probe.fn = "content" /\ probe.called) =>
        LET r == probe.row
            title == IF pd_isna(r.title) THEN <<>> ELSE Strip(r.title)
            text == Strip(Join(<<" ">>, probe.fetched.texts))
            transcript_part ==
                IF r.url \in {ShortLink, WatchLink} /\ probe.fetched.ok
                THEN SubSeq(text, 1, Min(Len(text), MAX_TRANSCRIPT_CHARS))
                ELSE <<>>
        IN  IF ~pd_isna(r.content) /\ Strip(r.content) # <<>>
            THEN probe.res = Strip(r.content)
            ELSE r.url \in {ShortLink, WatchLink, WatchNoId} =>
                    probe.res = Join(<<"\n">>, SelectSeq(<<title, transcript_part>>,
                                                          LAMBDA p : p # <<>>))

(***************************************************************************)
(* C18: the batches partition the queue into contiguous slices: the batch  *)
(* handed to the classifier starts at a multiple of BATCH_SIZE inside the  *)
(* queue, holds the next BATCH_SIZE queue entries (the last batch the      *)
(* remaining 1..BATCH_SIZE entries) in queue order, which is input row     *)
(* order; the records submitted so far are exactly the queue entries up to *)
(* the end of the current batch, and when the loop is over every queue     *)
(* entry has been in a batch.                                              *)
(***************************************************************************)
C18_BatchesPartitionQueue ==
    LET n == Len(rows_to_process)
        done_upto == IF calls # <<>> THEN Min(i + BATCH_SIZE, n) ELSE i
    IN  /\ InBatchLoop => (i % BATCH_SIZE = 0 /\ i < n)
        /\ \A c \in DOMAIN calls :
              LET inp == calls[c].input
              IN  /\ Len(inp) >= 1 /\ Len(inp) <= BATCH_SIZE
                  /\ Len(inp) = IF i + BATCH_SIZE <= n THEN BATCH_SIZE ELSE n - i
                  /\ \A m \in DOMAIN inp :
                        inp[m] = <<rows_to_process[i + m][1], rows_to_process[i + m][2]>>
                  /\ \A m \in 1..(Len(inp) - 1) : inp[m][1] < inp[m + 1][1]
        /\ submitted = { rows_to_process[m][1] : m \in 1..done_upto }
        /\ (pc \in {"export", "done"} /\ n > 0) => submitted = QueueIds

\* a full first batch was followed by a last batch of one record
C18_Witness ==
    /\ pc = "done"
    /\ i = BATCH_SIZE
    /\ Len(rows_to_process) = BATCH_SIZE + 1
    /\ Len(calls[1].input) = 1
    /\ submitted = QueueIds

(***************************************************************************)
(* C19: every batch, recorded or given up, is followed by exactly one      *)
(* inter-batch pause before the next batch is submitted and before the     *)
(* export decision: while the batch that starts at i is being worked on,   *)
(* one pause has been taken for each batch before it, and at the export    *)
(* decision and after it one for every batch.  The pauses are counted      *)
(* apart from the retry waits, of which a batch has one between any two of *)
(* its attempts.                                                           *)
(***************************************************************************)
C19_OnePausePerBatch ==
    LET n == Len(rows_to_process)
        batches == (n + BATCH_SIZE - 1) \div BATCH_SIZE
    IN  /\ pc \in {"start", "filter"} => pauses = 0
        /\ pc \in {"submit", "retry_wait", "check", "record", "pause", "crashed"} =>
              pauses = i \div BATCH_SIZE
        /\ pc = "export" => (pauses = batches /\ batches = i \div BATCH_SIZE + 1)
        /\ pc = "done" => pauses = batches
        /\ waits = IF pc = "submit" THEN Len(calls)
                   ELSE IF calls = <<>> THEN 0 ELSE Len(calls) - 1

\* a run of two batches ended: one batch was given up, one was recorded,
\* the last one after a retry wait, and two pauses were taken
C19_Witness ==
    /\ pc = "done"
    /\ pauses = 2
    /\ given_up # {}
    /\ written # {}
    /\ waits > 0

(***************************************************************************)
(* C20: recording a batch changes the output cells of that batch's members *)
(* only: a cell of the dataframe differs from the input's value only for a *)
(* row that was enqueued and whose batch has got a result that is recorded *)
(* (the batch was not given up and its record loop has begun); so a row    *)
(* that was never enqueued, a row whose batch gave up and a row named only *)
(* by a foreign key of a response keep their value, in the dataframe and   *)
(* in the exported artifact.                                               *)
(***************************************************************************)
C20_OnlyRecordedCellsChange ==
    pc # "start" =>
        \A idx \in 0..(Len(xlsx.rows) - 1) :
            LET recorded ==
                    /\ idx \in QueueIds
                    /\ BatchOf(idx) <= i
                    /\ BatchOf(idx) \notin given_up
                    /\ BatchOf(idx) = i =>
                          (pc \in {"record", "pause", "export", "done", "crashed"}
                           /\ Truthy(results))
            IN  /\ df[idx + 1] # OrigCell(idx) => recorded
                /\ out_file.written =>
                      (out_file.rows[idx + 1] # OrigCell(idx) => recorded)

\* an artifact was exported after the first batch was given up and the last
\* batch got a response whose only key is foreign, naming a row of the
\* given-up batch; the rows of the given-up batch keep the input's tags
C20_Witness ==
    /\ pc = "done"
    /\ out_file.written
    /\ xlsx.has_tags_ai
    /\ given_up = {0}
    /\ \A idx \in ids(Batch(rows_to_process, 0)) : out_file.rows[idx + 1] = OldTags
    /\ \E f \in DOMAIN results.map :
          /\ f \in 0..(Len(xlsx.rows) - 1)
          /\ f \notin ids(Batch(rows_to_process, i))
          /\ out_file.rows[f + 1] = OldTags
    /\ written # {}

====
